---- MODULE Spec2Model ----
(***************************************************************************)
(* Product-Importer browser client.                                        *)
(*   src/unnamed/part_000   : CSV upload + progress polling, product CRUD  *)
(*   src/static/webhooks.js : webhook CRUD and test delivery               *)
(* Every event-loop callback (DOM event handler, fetch continuation, timer *)
(* tick) runs to completion, so each is one action.                        *)
(*                                                                         *)
(* Encoding of JavaScript values:                                          *)
(*   null / absent field  : <<>>       present value v : <<v>>             *)
(*   a file name          : the sequence of its characters                 *)
(*   a displayed text     : the sequence of the parts concatenated         *)
(***************************************************************************)
EXTENDS Integers, Sequences, FiniteSets, Bags, TLC

\* ------------------------------------------------------------------ bounds
MaxRequests == 3    \* uploads and poll ticks issued in one run
MaxClicks == 2      \* requests issued by clicks on the tables in one run

\* ------------------------------------------------------------- JS helpers
Absent == <<>>
Some(v) == <<v>>

\* JavaScript truthiness of an optional string field (undefined and '' are
\* falsy) and of an optional number field (undefined and 0 are falsy)
TruthyStr(m) == m # Absent /\ m[1] # ""
TruthyNum(m) == m # Absent /\ m[1] # 0

\* m || d on an optional string / number field
OrElseStr(m, d) == IF TruthyStr(m) THEN m[1] ELSE d
OrElseNum(m, d) == IF TruthyNum(m) THEN m[1] ELSE d

\* files[0] of a FileList: undefined when the list is empty
First(files) == IF Len(files) = 0 THEN Absent ELSE Some(files[1])

\* String.prototype.endsWith
EndsWith(s, suffix) ==
    /\ Len(s) >= Len(suffix)
    /\ SubSeq(s, Len(s) - Len(suffix) + 1, Len(s)) = suffix

DotCsv == <<".", "c", "s", "v">>

\* ------------------------------------------------------------ input sets
FileNames ==
    { <<"a", ".", "c", "s", "v">>,      \* a.csv
      <<"b", ".", "c", "s", "v">>,      \* b.csv
      <<"a", ".", "C", "S", "V">>,      \* a.CSV
      <<"c", "s", "v">> }               \* csv

\* a FileList: empty (a cancelled file dialog), one file, or several
FileLists ==
    {<<>>} \cup { <<f>> : f \in FileNames }
           \cup { <<f, <<"b", ".", "c", "s", "v">> >> : f \in FileNames }

TaskIds == {"t1", "t2"}

\* outcome of POST /upload: transport error, body that is not JSON, or a
\* JSON object whose task_id is absent, empty or a task id.  ok is res.ok,
\* false for a response whose HTTP status is not 2xx; such a response may
\* carry a JSON error object, which has no task_id.
UploadResponses ==
    { [kind |-> "network", ok |-> FALSE, task_id |-> Absent],
      [kind |-> "nonjson", ok |-> FALSE, task_id |-> Absent],
      [kind |-> "json", ok |-> FALSE, task_id |-> Absent] }
    \cup { [kind |-> "json", ok |-> TRUE, task_id |-> t] :
             t \in {Absent, Some("")} \cup { Some(x) : x \in TaskIds } }

PollStates == {"PENDING", "PROGRESS", "SUCCESS", "FAILURE"}

\* outcome of GET /progress/{taskId}: transport error, body that is not
\* JSON, a JSON progress report, or a response whose HTTP status is not 2xx
\* with a JSON error object, which has no state (printed 'undefined'), no
\* progress and no status
PollResponses ==
    { [kind |-> k, ok |-> FALSE, state |-> "undefined", progress |-> Absent,
       status |-> Absent] : k \in {"network", "nonjson", "json"} }
    \cup { [kind |-> "json", ok |-> TRUE, state |-> s, progress |-> Absent,
            status |-> m] :
             s \in PollStates, m \in {Absent, Some(""), Some("boom")} }
    \cup { [kind |-> "json", ok |-> TRUE, state |-> s, progress |-> Some(40),
            status |-> Absent] : s \in PollStates }

\* the products the server may list
P1 == [id |-> 1, sku |-> "A", name |-> "N", description |-> "D",
       active |-> TRUE]
P2 == [id |-> 2, sku |-> "A", name |-> "N", description |-> "D",
       active |-> FALSE]

\* the filter inputs #search and #activeFilter as the user may set them
Filters == { [search |-> "", active |-> ""],
             [search |-> "k", active |-> "true"] }

\* outcome of GET /api/products: transport error, body that is not JSON, or
\* a page of products with the total count
ListBodies ==
    { [products |-> <<>>, total |-> 0],
      [products |-> <<P1>>, total |-> 20],
      [products |-> <<P1>>, total |-> 21],
      [products |-> <<P1>>, total |-> 45],
      [products |-> <<P1, P2>>, total |-> 45] }

ListResponses ==
    { [kind |-> k, products |-> <<>>, total |-> 0] :
        k \in {"network", "nonjson"} }
    \cup { [kind |-> "json", products |-> b.products, total |-> b.total] :
             b \in ListBodies }

\* outcome of a save, delete, bulk-delete or test request: transport error,
\* body that is not JSON, or a JSON body
CrudResponses ==
    { [kind |-> k, status |-> "", message |-> Absent, deleted_count |-> 0,
       response_code |-> 0, response_time |-> 0] :
        k \in {"network", "nonjson"} }
    \cup { [kind |-> "json", status |-> st, message |-> m,
            deleted_count |-> 7, response_code |-> 200,
            response_time |-> 12] :
             st \in {"success", "deleted", "error"},
             m \in {Absent, Some("denied")} }

\* the webhooks the server may list
W1 == [id |-> 1, url |-> "u", event_type |-> "e", enabled |-> TRUE]
W2 == [id |-> 2, url |-> "u", event_type |-> "e", enabled |-> FALSE]

\* outcome of GET /api/webhooks
WebhookListResponses ==
    { [kind |-> k, webhooks |-> <<>>] : k \in {"network", "nonjson"} }
    \cup { [kind |-> "json", webhooks |-> ws] :
             ws \in {<<>>, <<W1>>, <<W1, W2>>} }

\* what the user may type into the webhook form
WebhookInputs == [url : {"", "u"}, event_type : {"", "e"}]

\* what the user may type into the product form
ProductInputs == [sku : {"", "A"}, name : {"", "N"}]

\* ----------------------------------------------------------------- state
VARIABLES
    currentFile,        \* part_000:13  Absent or Some(file name)
    statusText,         \* #status textContent
    progressDisplay,    \* #progress-container style.display
    progressWidth,      \* #progress-bar style.width, the percent
    progressText,       \* #progress-text textContent, the percent
    retryDisplay,       \* #retry-btn style.display
    uploadReqs,         \* bag of outstanding POST /upload, by file name
    nRequests,          \* requests issued so far by user events and ticks
    intervals,          \* the setInterval timers started by pollProgress
    pollReqs,           \* set of outstanding GET /progress: [loop, n]
    listReqs,           \* bag of outstanding GET /api/products
    currentPage,        \* part_000:123
    filter,             \* values of #search and #activeFilter
    tbody,              \* rows of the rendered table
    pageInfo,           \* #pageInfo, Absent until a list was rendered
    modalDisplay,       \* #modal style.display
    modalTitle,         \* #modalTitle textContent
    form,               \* fields of the form in the modal
    bulkBtn,            \* #bulk-delete-btn: disabled, textContent
    crudReqs,           \* bag of outstanding save / delete / bulk / test
    doc,                \* the document loaded: "products" or "webhooks"
    saveBtn,            \* webhooks: the form's submit button
    testBtns,           \* webhooks: the Test buttons of each rendering
    last                \* the callback that ran last, with its input

uploadVarsButCount ==
    <<currentFile, statusText, progressDisplay, progressWidth, progressText,
      retryDisplay, uploadReqs, intervals, pollReqs>>

uploadVars == <<uploadVarsButCount, nRequests>>

vars == <<currentFile, statusText, progressDisplay, progressWidth,
          progressText, retryDisplay, uploadReqs, nRequests,
          intervals, pollReqs, listReqs, currentPage, filter, tbody,
          pageInfo, modalDisplay, modalTitle, form, bulkBtn, crudReqs, doc,
          saveBtn, testBtns, last>>

varsButLast ==
    <<currentFile, statusText, progressDisplay, progressWidth, progressText,
      retryDisplay, uploadReqs, nRequests, intervals, pollReqs, listReqs,
      currentPage, filter, tbody, pageInfo, modalDisplay, modalTitle, form,
      bulkBtn, crudReqs, doc, saveBtn, testBtns>>

whVars == <<doc, saveBtn, testBtns>>

crudVars == <<currentPage, filter, tbody, pageInfo, modalDisplay, modalTitle,
              form, bulkBtn, crudReqs, whVars>>

NoResp == [kind |-> "none"]

\* file: files[0] of the FileList handled, or the file of the request answered
\* op: the callback; file: files[0] handled or the file of the upload
\* answered; loop, n: the poll loop of the request issued or answered and the
\* request's number in that loop; req: the request issued or answered by a
\* table callback; ok: the answer given to confirm(); resp: the outcome
\* processed; alert: the text of the alert() raised
Event(op, file, loop, n, resp) ==
    [op |-> op, file |-> file, loop |-> loop, n |-> n, resp |-> resp,
     req |-> Absent, ok |-> FALSE, alert |-> Absent]

CrudEvent(op, req, ok, resp, alert) ==
    [op |-> op, file |-> Absent, loop |-> 0, n |-> 0, resp |-> resp,
     req |-> req, ok |-> ok, alert |-> alert]

\* the query of loadProducts (line 171)
ListQuery == [page |-> currentPage, search |-> filter.search,
              active |-> filter.active]

perPage == 20

\* GET /api/webhooks carries no query (webhooks.js line 21)
WebhookQuery == [page |-> 0, search |-> "", active |-> ""]

EmptyWebhookForm == [id |-> Absent, url |-> "", event_type |-> "",
                     enabled |-> FALSE]

EmptyForm == [id |-> Absent, sku |-> "", name |-> "", description |-> "",
              active |-> FALSE]

Init ==
    /\ currentFile = Absent
    /\ statusText = <<>>
    /\ progressDisplay = ""
    /\ progressWidth = 0
    /\ progressText = 0
    /\ retryDisplay = ""
    /\ uploadReqs = EmptyBag
    /\ nRequests = 0
    /\ intervals = <<>>
    /\ pollReqs = {}
    /\ currentPage = 1
    /\ filter = [search |-> "", active |-> ""]
    /\ listReqs = SetToBag({ListQuery})   \* DOMContentLoaded: loadProducts()
    /\ tbody = <<>>
    /\ pageInfo = Absent
    /\ modalDisplay = ""
    /\ modalTitle = ""
    /\ form = EmptyForm
    /\ bulkBtn = [disabled |-> FALSE, text |-> "Delete All Products"]
    /\ crudReqs = EmptyBag
    /\ doc = "products"
    /\ saveBtn = [disabled |-> FALSE, text |-> "Save"]
    /\ testBtns = <<>>
    /\ last = Event("load", Absent, 0, 0, NoResp)

\* --------------------------------------------------------- upload section

\* uploadCSV(file), the synchronous part: the fetch is issued
UploadCSV(file) ==
    /\ uploadReqs' = uploadReqs (+) SetToBag({file})
    /\ nRequests' = nRequests + 1

\* handleFiles: does the validation let files[0] through?
HandleFilesMissingDot(file) == EndsWith(file, <<"c", "s", "v">>)
HandleFilesAccepts(file) == EndsWith(file, DotCsv)

\* handleFiles(files)
HandleFiles(files) ==
    IF Len(files) = 0
    THEN \* files[0] is undefined: file.name throws, nothing was changed
         UNCHANGED uploadVars
    ELSE LET file == files[1] IN
         IF ~HandleFilesAccepts(file)
         THEN /\ statusText' = <<"Please upload a valid CSV file.">>
              /\ UNCHANGED <<currentFile, progressDisplay, progressWidth,
                             progressText, retryDisplay, uploadReqs,
                             nRequests, intervals, pollReqs>>
         ELSE /\ statusText' = <<>>
              /\ progressDisplay' = "block"
              /\ progressWidth' = 0
              /\ progressText' = 0
              /\ retryDisplay' = "none"
              /\ currentFile' = Some(file)
              /\ UploadCSV(file)
              /\ UNCHANGED <<intervals, pollReqs>>

\* uploadArea 'drop' listener
Drop(files) ==
    /\ nRequests < MaxRequests
    /\ last' = Event("drop", First(files), 0, 0, NoResp)
    /\ IF Len(files) # 0 THEN HandleFiles(files) ELSE UNCHANGED uploadVars
    /\ UNCHANGED <<listReqs, crudVars>>

\* fileInput 'change' listener
Change(files) ==
    /\ nRequests < MaxRequests
    /\ last' = Event("change", First(files), 0, 0, NoResp)
    /\ HandleFiles(files)
    /\ UNCHANGED <<listReqs, crudVars>>

\* retryBtn 'click' listener.  The button takes clicks unless its inline
\* style hides it (display 'none', set by handleFiles).
RetryClick ==
    /\ nRequests < MaxRequests
    /\ retryDisplay # "none"
    /\ last' = Event("retry", currentFile, 0, 0, NoResp)
    /\ IF currentFile # Absent
       THEN UploadCSV(currentFile[1])
       ELSE UNCHANGED <<uploadReqs, nRequests>>
    /\ UNCHANGED <<currentFile, statusText, progressDisplay, progressWidth,
                   progressText, retryDisplay, intervals, pollReqs,
                   listReqs, crudVars>>

\* pollProgress(taskId): setInterval registers a new timer.  successes and
\* reloads count, for the loop, the SUCCESS bodies delivered to it and the
\* loadProducts() calls its callbacks made; issued counts its requests.
PollProgressCancelsPrior(taskId) ==
    intervals' = Append([i \in DOMAIN intervals |->
                            [intervals[i] EXCEPT !.cleared = TRUE]],
                        [taskId |-> taskId, cleared |-> FALSE, issued |-> 0,
                         successes |-> 0, reloads |-> 0])
PollProgress(taskId) ==
    intervals' = Append(intervals,
                        [taskId |-> taskId, cleared |-> FALSE, issued |-> 0,
                         successes |-> 0, reloads |-> 0])

\* the .then/.catch chain of uploadCSV on the outcome of one POST: is the
\* poll loop started (line 76), or the failure shown (lines 77-82)?
UploadThenIgnoresMissingId(resp) ==
    [poll |-> resp.kind = "json", failed |-> resp.kind # "json"]
UploadThen(resp) ==
    IF resp.kind = "json" /\ TruthyStr(resp.task_id)
    THEN [poll |-> TRUE, failed |-> FALSE]
    ELSE [poll |-> FALSE, failed |-> TRUE]

UploadResponse(file, resp) ==
    /\ BagIn(file, uploadReqs)
    /\ uploadReqs' = uploadReqs (-) SetToBag({file})
    /\ last' = Event("uploadResponse", Some(file), 0, 0, resp)
    /\ LET e == UploadThen(resp) IN
       /\ IF e.poll
          THEN PollProgress(OrElseStr(resp.task_id, ""))
          ELSE UNCHANGED intervals
       /\ IF e.failed
          THEN /\ statusText' = <<"Upload failed. Please try again.">>
               /\ retryDisplay' = "inline-block"
          ELSE UNCHANGED <<statusText, retryDisplay>>
    /\ UNCHANGED <<currentFile, progressDisplay, progressWidth, progressText,
                   nRequests, pollReqs, listReqs, crudVars>>

\* loadProducts(), up to its first await: GET /api/products is issued for
\* the page number current at the call
LoadProducts(page) ==
    listReqs' = listReqs (+) SetToBag({[ListQuery EXCEPT !.page = page]})

\* one firing of the setInterval callback of loop l: the fetch is issued
Tick(l) ==
    /\ ~intervals[l].cleared
    /\ nRequests < MaxRequests
    /\ nRequests' = nRequests + 1
    /\ intervals' = [intervals EXCEPT ![l].issued = @ + 1]
    /\ pollReqs' = pollReqs \cup {[loop |-> l, n |-> intervals[l].issued + 1]}
    /\ last' = Event("tick", Absent, l, intervals[l].issued + 1, NoResp)
    /\ UNCHANGED <<currentFile, statusText, progressDisplay, progressWidth,
                   progressText, retryDisplay, uploadReqs,
                   listReqs, crudVars>>

\* the .then handler of a tick (lines 90-108) on the JSON body data: what it
\* writes to the page, whether it clears the interval and reloads the list
PollThenPlain(data) ==
    [percent |-> Some(OrElseNum(data.progress, 0)),
     status  |-> IF data.state = "FAILURE"
                 THEN <<OrElseStr(data.status, "Error")>>
                 ELSE IF data.state = "SUCCESS"
                 THEN <<"Import Complete!">>
                 ELSE <<OrElseStr(data.status, "Processing...")>>,
     clear   |-> data.state \in {"SUCCESS", "FAILURE"},
     reload  |-> data.state = "SUCCESS",
     retry   |-> data.state = "FAILURE"]
PollThenNoClear(data) ==
    [percent |-> Some(OrElseNum(data.progress, 0)),
     status  |-> IF data.state = "FAILURE"
                 THEN <<"Failed: ", OrElseStr(data.status, "Error")>>
                 ELSE IF data.state = "SUCCESS"
                 THEN <<"Import Complete!">>
                 ELSE <<OrElseStr(data.status, "Processing...")>>,
     clear   |-> data.state = "FAILURE",
     reload  |-> data.state = "SUCCESS",
     retry   |-> data.state = "FAILURE"]
PollThen(data) ==
    [percent |-> Some(OrElseNum(data.progress, 0)),
     status  |-> IF data.state = "FAILURE"
                 THEN <<"Failed: ", OrElseStr(data.status, "Error")>>
                 ELSE IF data.state = "SUCCESS"
                 THEN <<"Import Complete!">>
                 ELSE <<OrElseStr(data.status, "Processing...")>>,
     clear   |-> data.state \in {"SUCCESS", "FAILURE"},
     reload  |-> data.state = "SUCCESS",
     retry   |-> data.state = "FAILURE"]

\* the .catch handler of a tick (lines 109-113)
PollCatchNoClear ==
    [percent |-> Absent, status |-> <<"Error fetching progress.">>,
     clear |-> FALSE, reload |-> FALSE, retry |-> TRUE]
PollCatch ==
    [percent |-> Absent, status |-> <<"Error fetching progress.">>,
     clear |-> TRUE, reload |-> FALSE, retry |-> TRUE]

\* the outcome of one GET /progress/{taskId} is processed
PollResponse(req, resp) ==
    /\ req \in pollReqs
    /\ pollReqs' = pollReqs \ {req}
    /\ last' = Event("pollResponse", Absent, req.loop, req.n, resp)
    /\ LET e == IF resp.kind = "json" THEN PollThen(resp) ELSE PollCatch
           l == req.loop
       IN
       /\ progressWidth' = OrElseNum(e.percent, progressWidth)
       /\ progressText' = OrElseNum(e.percent, progressText)
       /\ statusText' = e.status
       /\ retryDisplay' = IF e.retry THEN "inline-block" ELSE retryDisplay
       /\ intervals' =
            [intervals EXCEPT
               ![l].cleared = @ \/ e.clear,
               ![l].successes =
                   IF resp.kind = "json" /\ resp.state = "SUCCESS"
                   THEN @ + 1 ELSE @,
               ![l].reloads = IF e.reload THEN @ + 1 ELSE @]
       /\ IF e.reload THEN LoadProducts(currentPage) ELSE UNCHANGED listReqs
    /\ UNCHANGED <<currentFile, progressDisplay, uploadReqs, nRequests,
                   crudVars>>

\* ------------------------------------------------- product management
NoReq == [kind |-> "none", method |-> "", id |-> Absent, body |-> Absent]

\* a request of the table callbacks: id is the id in the URL, body the JSON
\* body sent, if any
CrudReq(kind, method, id, body) ==
    [kind |-> kind, method |-> method, id |-> id, body |-> body]

IssueCrud(req) ==
    /\ crudReqs' = crudReqs (+) SetToBag({req})
    /\ nRequests' = nRequests + 1

\* #filterBtn click (lines 134-137)
FilterClick ==
    /\ doc = "products"
    /\ nRequests < MaxClicks
    /\ currentPage' = 1
    /\ LoadProducts(1)
    /\ nRequests' = nRequests + 1
    /\ last' = CrudEvent("filter", NoReq, FALSE, NoResp, Absent)
    /\ UNCHANGED <<whVars, filter, tbody, pageInfo, modalDisplay, modalTitle, form,
                   bulkBtn, crudReqs, uploadVarsButCount>>

\* #prevPage click: does it move (line 140)?
PrevPageAlwaysMoves(page) == TRUE
PrevPageMoves(page) == page > 1

\* #prevPage click (lines 139-144)
PrevClick ==
    /\ doc = "products"
    /\ nRequests < MaxClicks
    /\ last' = CrudEvent("prev", NoReq, FALSE, NoResp, Absent)
    /\ IF PrevPageMoves(currentPage)
       THEN /\ currentPage' = currentPage - 1
            /\ LoadProducts(currentPage - 1)
            /\ nRequests' = nRequests + 1
       ELSE UNCHANGED <<currentPage, listReqs, nRequests>>
    /\ UNCHANGED <<whVars, filter, tbody, pageInfo, modalDisplay, modalTitle, form,
                   bulkBtn, crudReqs, uploadVarsButCount>>

\* #nextPage click (lines 146-149)
NextClick ==
    /\ doc = "products"
    /\ nRequests < MaxClicks
    /\ currentPage' = currentPage + 1
    /\ LoadProducts(currentPage + 1)
    /\ nRequests' = nRequests + 1
    /\ last' = CrudEvent("next", NoReq, FALSE, NoResp, Absent)
    /\ UNCHANGED <<whVars, filter, tbody, pageInfo, modalDisplay, modalTitle, form,
                   bulkBtn, crudReqs, uploadVarsButCount>>

\* the user edits the #search and #activeFilter inputs
TypeFilter(f) ==
    /\ doc = "products"
    /\ filter' = f
    /\ last' = CrudEvent("typeFilter", NoReq, FALSE, NoResp, Absent)
    /\ UNCHANGED <<whVars, currentPage, tbody, pageInfo, modalDisplay, modalTitle,
                   form, bulkBtn, crudReqs, listReqs, uploadVars>>

\* Math.ceil(total / perPage) || 1
PageCountFloor(total) ==
    LET c == total \div perPage IN IF c = 0 THEN 1 ELSE c
PageCount(total) ==
    LET c == (total + perPage - 1) \div perPage IN IF c = 0 THEN 1 ELSE c

\* loadProducts after its awaits (lines 172-181) on the outcome of the
\* request req; the server answers with the page it was asked for
ListResponse(req, resp) ==
    /\ doc = "products"
    /\ BagIn(req, listReqs)
    /\ listReqs' = listReqs (-) SetToBag({req})
    /\ IF resp.kind = "json"
       THEN /\ tbody' = resp.products          \* renderProductsTable
            /\ pageInfo' = Some([page |-> req.page,
                                 of |-> PageCount(resp.total)])
            /\ last' = CrudEvent("listResponse", req, FALSE, resp, Absent)
       ELSE /\ last' = CrudEvent("listResponse", req, FALSE, resp,
                                 <<"Failed to load products.">>)
            /\ UNCHANGED <<whVars, tbody, pageInfo>>
    /\ UNCHANGED <<whVars, currentPage, filter, modalDisplay, modalTitle, form,
                   bulkBtn, crudReqs, uploadVars>>

\* openCreateModal: the form after reset() and productId.value = "" (lines
\* 226-227), from the form f as it was
OpenCreateModalResetOnly(f) == [EmptyForm EXCEPT !.id = f.id]
OpenCreateModalForm(f) == EmptyForm

\* #createBtn click: openCreateModal (lines 223-228)
OpenCreateModal ==
    /\ doc = "products"
    /\ modalDisplay' = "block"
    /\ modalTitle' = "Create Product"
    /\ form' = OpenCreateModalForm(form)
    /\ last' = CrudEvent("create", NoReq, FALSE, NoResp, Absent)
    /\ UNCHANGED <<whVars, currentPage, filter, tbody, pageInfo, bulkBtn, crudReqs,
                   listReqs, uploadVars>>

\* .close click: closeModal (lines 234-236)
CloseModal ==
    /\ doc = "products"
    /\ modalDisplay = "block"
    /\ modalDisplay' = "none"
    /\ last' = CrudEvent("close", NoReq, FALSE, NoResp, Absent)
    /\ UNCHANGED <<whVars, currentPage, filter, tbody, pageInfo, modalTitle, form,
                   bulkBtn, crudReqs, listReqs, uploadVars>>

\* Edit click in row i: editProduct (lines 238-246) with the row's values
EditProduct(i) ==
    /\ doc = "products"
    /\ i \in DOMAIN tbody
    /\ modalDisplay' = "block"
    /\ modalTitle' = "Edit Product"
    /\ form' = [id |-> Some(tbody[i].id), sku |-> tbody[i].sku,
                name |-> tbody[i].name,
                description |-> tbody[i].description,
                active |-> tbody[i].active]
    /\ last' = CrudEvent("edit", NoReq, FALSE, NoResp, Absent)
    /\ UNCHANGED <<whVars, currentPage, filter, tbody, pageInfo, bulkBtn, crudReqs,
                   listReqs, uploadVars>>

\* the user types into the sku and name fields of the open modal
InputProduct(v) ==
    /\ doc = "products"
    /\ modalDisplay = "block"
    /\ form' = [form EXCEPT !.sku = v.sku, !.name = v.name]
    /\ last' = CrudEvent("input", NoReq, FALSE, NoResp, Absent)
    /\ UNCHANGED <<whVars, currentPage, filter, tbody, pageInfo, modalDisplay,
                   modalTitle, bulkBtn, crudReqs, listReqs, uploadVars>>

\* saveProduct: the required-field check (line 265)
SaveProductChecksSkuOnly(product) == product.sku # ""
SaveProductValid(product) == product.sku # "" /\ product.name # ""

\* #productForm submit: saveProduct up to its first await (lines 254-275)
SaveProduct ==
    /\ doc = "products"
    /\ nRequests < MaxClicks
    /\ modalDisplay = "block"
    /\ LET product == form IN
       IF ~SaveProductValid(product)
       THEN /\ last' = CrudEvent("save", NoReq, FALSE, NoResp,
                                 <<"SKU and Name are required.">>)
            /\ UNCHANGED <<whVars, crudReqs, nRequests>>
       ELSE /\ IssueCrud(CrudReq("save", "POST", Absent, Some(product)))
            /\ last' = CrudEvent("save", CrudReq("save", "POST", Absent, Some(product)),
                                 FALSE, NoResp, Absent)
    /\ UNCHANGED <<whVars, currentPage, filter, tbody, pageInfo, modalDisplay,
                   modalTitle, form, bulkBtn, listReqs, uploadVarsButCount>>

\* saveProduct after its awaits (lines 277-288): is the modal closed and
\* the list reloaded, and which alert is raised
SaveProductThenAlwaysCloses(resp) ==
    [close |-> TRUE, reload |-> TRUE, alert |-> Absent]
SaveProductThen(resp) ==
    IF resp.kind # "json"
    THEN [close |-> FALSE, reload |-> FALSE,
          alert |-> <<"Failed to save product.">>]
    ELSE IF resp.status = "success"
    THEN [close |-> TRUE, reload |-> TRUE, alert |-> Absent]
    ELSE [close |-> FALSE, reload |-> FALSE,
          alert |-> <<"Error: ",
                      OrElseStr(resp.message, "Failed to save product")>>]

SaveResponse(req, resp) ==
    /\ doc = "products"
    /\ BagIn(req, crudReqs)
    /\ req.kind = "save"
    /\ crudReqs' = crudReqs (-) SetToBag({req})
    /\ LET e == SaveProductThen(resp) IN
       /\ modalDisplay' = IF e.close THEN "none" ELSE modalDisplay
       /\ IF e.reload THEN LoadProducts(currentPage) ELSE UNCHANGED listReqs
       /\ last' = CrudEvent("saveResponse", req, FALSE, resp, e.alert)
    /\ UNCHANGED <<whVars, currentPage, filter, tbody, pageInfo, modalTitle, form,
                   bulkBtn, uploadVars>>

\* deleteProduct: does it go on after confirm() (line 298)?
DeleteProductUnconfirmed(ok) == TRUE
DeleteProductConfirmed(ok) == ok

\* Delete click in row i: deleteProduct up to its first await (297-301)
DeleteProduct(i, ok) ==
    /\ doc = "products"
    /\ nRequests < MaxClicks
    /\ i \in DOMAIN tbody
    /\ LET req == CrudReq("delete", "DELETE", Some(tbody[i].id), Absent) IN
       IF DeleteProductConfirmed(ok)
       THEN /\ IssueCrud(req)
            /\ last' = CrudEvent("delete", req, ok, NoResp, Absent)
       ELSE /\ last' = CrudEvent("delete", NoReq, ok, NoResp, Absent)
            /\ UNCHANGED <<whVars, crudReqs, nRequests>>
    /\ UNCHANGED <<whVars, currentPage, filter, tbody, pageInfo, modalDisplay,
                   modalTitle, form, bulkBtn, listReqs, uploadVarsButCount>>

\* deleteProduct after its awaits (lines 302-309)
DeleteResponse(req, resp) ==
    /\ doc = "products"
    /\ BagIn(req, crudReqs)
    /\ req.kind = "delete"
    /\ crudReqs' = crudReqs (-) SetToBag({req})
    /\ IF resp.kind = "json" /\ resp.status = "deleted"
       THEN /\ LoadProducts(currentPage)
            /\ last' = CrudEvent("deleteResponse", req, FALSE, resp, Absent)
       ELSE /\ last' = CrudEvent("deleteResponse", req, FALSE, resp,
                                 <<"Failed to delete product.">>)
            /\ UNCHANGED listReqs
    /\ UNCHANGED <<whVars, currentPage, filter, tbody, pageInfo, modalDisplay,
                   modalTitle, form, bulkBtn, uploadVars>>

\* bulkDeleteProducts: does it go on after confirm() (line 319)?
BulkDeleteConfirmed(ok) == ok

\* bulkDeleteProducts: the button while the request runs (lines 321-323)
BulkDeleteLabelOnly == [disabled |-> FALSE, text |-> "Deleting..."]
BulkDeleteBusy == [disabled |-> TRUE, text |-> "Deleting..."]

\* #bulk-delete-btn click: bulkDeleteProducts up to its first await
\* (lines 318-326); a disabled button takes no click
BulkDeleteProducts(ok) ==
    /\ doc = "products"
    /\ nRequests < MaxClicks
    /\ ~bulkBtn.disabled
    /\ LET req == CrudReq("bulk", "POST", Absent, Absent) IN
       IF BulkDeleteConfirmed(ok)
       THEN /\ bulkBtn' = BulkDeleteBusy
            /\ IssueCrud(req)
            /\ last' = CrudEvent("bulk", req, ok, NoResp, Absent)
       ELSE /\ last' = CrudEvent("bulk", NoReq, ok, NoResp, Absent)
            /\ UNCHANGED <<whVars, bulkBtn, crudReqs, nRequests>>
    /\ UNCHANGED <<whVars, currentPage, filter, tbody, pageInfo, modalDisplay,
                   modalTitle, form, listReqs, uploadVarsButCount>>

\* bulkDeleteProducts: the finally block (lines 338-341), after the outcome
\* of kind k
BulkDeleteFinallyOnlyOnBody(k, btn) ==
    IF k = "json" THEN [disabled |-> FALSE, text |-> "Delete All Products"]
    ELSE btn
BulkDeleteFinally(k, btn) ==
    [disabled |-> FALSE, text |-> "Delete All Products"]

\* 'Failed: ' + data.message, with an undefined message printed by name
Printed(m) == IF m = Absent THEN "undefined" ELSE m[1]

\* bulkDeleteProducts after its awaits (lines 327-341)
BulkResponse(req, resp) ==
    /\ doc = "products"
    /\ BagIn(req, crudReqs)
    /\ req.kind = "bulk"
    /\ crudReqs' = crudReqs (-) SetToBag({req})
    /\ IF resp.kind = "json" /\ resp.status = "success"
       THEN /\ LoadProducts(currentPage)
            /\ last' = CrudEvent("bulkResponse", req, FALSE, resp,
                                 <<"All products deleted (",
                                   ToString(resp.deleted_count), ")">>)
       ELSE /\ last' = CrudEvent("bulkResponse", req, FALSE, resp,
                                 IF resp.kind = "json"
                                 THEN <<"Failed: ", Printed(resp.message)>>
                                 ELSE <<"Error: ", resp.kind>>)
            /\ UNCHANGED listReqs
    /\ bulkBtn' = BulkDeleteFinally(resp.kind, bulkBtn)
    /\ UNCHANGED <<whVars, currentPage, filter, tbody, pageInfo, modalDisplay,
                   modalTitle, form, uploadVars>>

\* --------------------------------------------------- webhooks document
\* the state right after DOMContentLoaded of the webhooks document
InitWebhooks ==
    /\ currentFile = Absent
    /\ statusText = <<>>
    /\ progressDisplay = ""
    /\ progressWidth = 0
    /\ progressText = 0
    /\ retryDisplay = ""
    /\ uploadReqs = EmptyBag
    /\ nRequests = 0
    /\ intervals = <<>>
    /\ pollReqs = {}
    /\ currentPage = 1
    /\ filter = [search |-> "", active |-> ""]
    /\ listReqs = SetToBag({WebhookQuery})   \* loadWebhooks() (line 4)
    /\ tbody = <<>>
    /\ pageInfo = Absent
    /\ modalDisplay = ""
    /\ modalTitle = ""
    /\ form = EmptyWebhookForm
    /\ bulkBtn = [disabled |-> FALSE, text |-> "Delete All Products"]
    /\ crudReqs = EmptyBag
    /\ doc = "webhooks"
    /\ saveBtn = [disabled |-> FALSE, text |-> "Save"]
    /\ testBtns = <<>>
    /\ last = Event("load", Absent, 0, 0, NoResp)

\* loadWebhooks() up to the fetch (line 21)
LoadWebhooks == listReqs' = listReqs (+) SetToBag({WebhookQuery})

FreshTestBtn == [disabled |-> FALSE, text |-> "Test"]

\* the Test buttons now in the table, and the table's rendering number
Rendering == Len(testBtns)

\* loadWebhooks: the .then/.catch chain (lines 22-49); each rendering
\* replaces the rows and creates their buttons anew
WebhookListResponse(resp) ==
    /\ doc = "webhooks"
    /\ BagIn(WebhookQuery, listReqs)
    /\ listReqs' = listReqs (-) SetToBag({WebhookQuery})
    /\ IF resp.kind = "json"
       THEN /\ tbody' = resp.webhooks
            /\ testBtns' = Append(testBtns,
                                  [i \in DOMAIN resp.webhooks |-> FreshTestBtn])
            /\ last' = CrudEvent("listResponse", NoReq, FALSE, resp, Absent)
       ELSE /\ last' = CrudEvent("listResponse", NoReq, FALSE, resp,
                                 <<"Failed to load webhooks: ", resp.kind>>)
            /\ UNCHANGED <<tbody, testBtns>>
    /\ UNCHANGED <<doc, saveBtn, currentPage, filter, pageInfo, modalDisplay,
                   modalTitle, form, bulkBtn, crudReqs, uploadVars>>

\* #createBtn click: openModal (lines 52-59)
OpenModal ==
    /\ doc = "webhooks"
    /\ modalDisplay' = "flex"
    /\ modalTitle' = "Create Webhook"
    /\ form' = EmptyWebhookForm
    /\ last' = CrudEvent("create", NoReq, FALSE, NoResp, Absent)
    /\ UNCHANGED <<whVars, currentPage, filter, tbody, pageInfo, bulkBtn,
                   crudReqs, listReqs, uploadVars>>

\* .close click: closeModal (lines 61-65)
CloseWebhookModal ==
    /\ doc = "webhooks"
    /\ modalDisplay = "flex"
    /\ modalDisplay' = "none"
    /\ last' = CrudEvent("close", NoReq, FALSE, NoResp, Absent)
    /\ UNCHANGED <<whVars, currentPage, filter, tbody, pageInfo, modalTitle,
                   form, bulkBtn, crudReqs, listReqs, uploadVars>>

\* Edit click in row i: editWebhook (lines 67-74) with the row's values
EditWebhook(i) ==
    /\ doc = "webhooks"
    /\ i \in DOMAIN tbody
    /\ modalDisplay' = "flex"
    /\ modalTitle' = "Edit Webhook"
    /\ form' = [id |-> Some(tbody[i].id), url |-> tbody[i].url,
                event_type |-> tbody[i].event_type,
                enabled |-> tbody[i].enabled]
    /\ last' = CrudEvent("edit", NoReq, FALSE, NoResp, Absent)
    /\ UNCHANGED <<whVars, currentPage, filter, tbody, pageInfo, bulkBtn,
                   crudReqs, listReqs, uploadVars>>

\* the user types into the url and event type fields of the open modal
InputWebhook(v) ==
    /\ doc = "webhooks"
    /\ modalDisplay = "flex"
    /\ form' = [form EXCEPT !.url = v.url, !.event_type = v.event_type]
    /\ last' = CrudEvent("input", NoReq, FALSE, NoResp, Absent)
    /\ UNCHANGED <<whVars, currentPage, filter, tbody, pageInfo, modalDisplay,
                   modalTitle, bulkBtn, crudReqs, listReqs, uploadVars>>

\* #webhookForm submit: saveWebhook up to the fetch (lines 76-94); a form
\* whose submit button is disabled is not submitted
SaveWebhook ==
    /\ doc = "webhooks"
    /\ nRequests < MaxClicks
    /\ modalDisplay = "flex"
    /\ ~saveBtn.disabled
    /\ LET body == [url |-> form.url, event_type |-> form.event_type,
                    enabled |-> form.enabled]
           req == IF form.id # Absent
                  THEN CrudReq("save", "PUT", form.id, Some(body))
                  ELSE CrudReq("save", "POST", Absent, Some(body))
       IN
       /\ saveBtn' = [disabled |-> TRUE, text |-> "Saving..."]
       /\ IssueCrud(req)
       /\ last' = CrudEvent("save", req, FALSE, NoResp, Absent)
    /\ UNCHANGED <<doc, testBtns, currentPage, filter, tbody, pageInfo,
                   modalDisplay, modalTitle, form, bulkBtn, listReqs,
                   uploadVarsButCount>>

\* saveWebhook: the .then/.catch handlers (lines 96-104): is the modal
\* closed and the list reloaded, and which alert is raised
SaveWebhookThenAlwaysCloses(resp) ==
    [close |-> TRUE, reload |-> TRUE, alert |-> Absent]
SaveWebhookThen(resp) ==
    IF resp.kind # "json"
    THEN [close |-> FALSE, reload |-> FALSE,
          alert |-> <<"Error: ", resp.kind>>]
    ELSE IF resp.status = "success"
    THEN [close |-> TRUE, reload |-> TRUE, alert |-> Absent]
    ELSE [close |-> FALSE, reload |-> FALSE,
          alert |-> <<"Failed: ", Printed(resp.message)>>]

\* saveWebhook: the .then/.catch/.finally chain (lines 95-108)
WebhookSaveResponse(req, resp) ==
    /\ doc = "webhooks"
    /\ BagIn(req, crudReqs)
    /\ req.kind = "save"
    /\ crudReqs' = crudReqs (-) SetToBag({req})
    /\ LET e == SaveWebhookThen(resp) IN
       /\ modalDisplay' = IF e.close THEN "none" ELSE modalDisplay
       /\ IF e.reload THEN LoadWebhooks ELSE UNCHANGED listReqs
       /\ last' = CrudEvent("saveResponse", req, FALSE, resp, e.alert)
    /\ saveBtn' = [disabled |-> FALSE, text |-> "Save"]
    /\ UNCHANGED <<doc, testBtns, currentPage, filter, tbody, pageInfo,
                   modalTitle, form, bulkBtn, uploadVars>>

\* deleteWebhook: does it go on after confirm() (line 112)?
DeleteWebhookConfirmed(ok) == ok

\* Delete click in row i: deleteWebhook up to the fetch (lines 111-114)
DeleteWebhook(i, ok) ==
    /\ doc = "webhooks"
    /\ nRequests < MaxClicks
    /\ i \in DOMAIN tbody
    /\ LET req == CrudReq("delete", "DELETE", Some(tbody[i].id), Absent) IN
       IF DeleteWebhookConfirmed(ok)
       THEN /\ IssueCrud(req)
            /\ last' = CrudEvent("delete", req, ok, NoResp, Absent)
       ELSE /\ last' = CrudEvent("delete", NoReq, ok, NoResp, Absent)
            /\ UNCHANGED <<crudReqs, nRequests>>
    /\ UNCHANGED <<whVars, currentPage, filter, tbody, pageInfo, modalDisplay,
                   modalTitle, form, bulkBtn, listReqs, uploadVarsButCount>>

\* deleteWebhook: the .then/.catch chain (lines 115-123)
WebhookDeleteResponse(req, resp) ==
    /\ doc = "webhooks"
    /\ BagIn(req, crudReqs)
    /\ req.kind = "delete"
    /\ crudReqs' = crudReqs (-) SetToBag({req})
    /\ IF resp.kind = "json" /\ resp.status = "success"
       THEN /\ LoadWebhooks
            /\ last' = CrudEvent("deleteResponse", req, FALSE, resp, Absent)
       ELSE /\ last' = CrudEvent("deleteResponse", req, FALSE, resp,
                                 IF resp.kind = "json"
                                 THEN <<"Failed: ", Printed(resp.message)>>
                                 ELSE <<"Error: ", resp.kind>>)
            /\ UNCHANGED listReqs
    /\ UNCHANGED <<whVars, currentPage, filter, tbody, pageInfo, modalDisplay,
                   modalTitle, form, bulkBtn, uploadVars>>

\* a test request remembers the button it was started from: btn is the
\* rendering and the row of that button
TestReq(id, g, i) ==
    [kind |-> "test", method |-> "POST", id |-> Some(id),
     body |-> Some([gen |-> g, row |-> i])]

\* Test click in row i: testWebhook up to the fetch (lines 126-130); a
\* disabled button takes no click
TestWebhook(i) ==
    /\ doc = "webhooks"
    /\ nRequests < MaxClicks
    /\ i \in DOMAIN tbody
    /\ ~testBtns[Rendering][i].disabled
    /\ testBtns' = [testBtns EXCEPT ![Rendering][i] =
                        [disabled |-> TRUE, text |-> "Testing..."]]
    /\ IssueCrud(TestReq(tbody[i].id, Rendering, i))
    /\ last' = CrudEvent("test", TestReq(tbody[i].id, Rendering, i), FALSE,
                         NoResp, Absent)
    /\ UNCHANGED <<doc, saveBtn, currentPage, filter, tbody, pageInfo,
                   modalDisplay, modalTitle, form, bulkBtn, listReqs,
                   uploadVarsButCount>>

\* testWebhook: the finally handler (lines 140-143), after the outcome of
\* kind k
TestWebhookFinallyOnlyOnBody(k, btn) ==
    IF k = "json" THEN [disabled |-> FALSE, text |-> "Test"] ELSE btn
TestWebhookFinally(k, btn) == [disabled |-> FALSE, text |-> "Test"]

\* testWebhook: the .then/.catch/.finally chain (lines 131-143)
TestResponse(req, resp) ==
    /\ doc = "webhooks"
    /\ BagIn(req, crudReqs)
    /\ req.kind = "test"
    /\ crudReqs' = crudReqs (-) SetToBag({req})
    /\ last' = CrudEvent("testResponse", req, FALSE, resp,
            IF resp.kind # "json"
            THEN <<"Error testing webhook: ", resp.kind>>
            ELSE IF resp.status = "success"
            THEN <<"Webhook test successful! Response code: ",
                   ToString(resp.response_code), ", Time: ",
                   ToString(resp.response_time), "ms">>
            ELSE <<"Webhook test failed: ", Printed(resp.message)>>)
    /\ LET b == req.body[1] IN
       testBtns' = [testBtns EXCEPT ![b.gen][b.row] =
                        TestWebhookFinally(resp.kind, @)]
    /\ UNCHANGED <<doc, saveBtn, currentPage, filter, tbody, pageInfo,
                   modalDisplay, modalTitle, form, bulkBtn, listReqs,
                   uploadVars>>

\* ------------------------------------------------------- specifications
Next ==
    \/ \E files \in FileLists : Drop(files)
    \/ \E files \in FileLists : Change(files)
    \/ RetryClick
    \/ \E file \in FileNames, resp \in UploadResponses :
         UploadResponse(file, resp)
    \/ \E l \in DOMAIN intervals : Tick(l)
    \/ \E req \in pollReqs, resp \in PollResponses : PollResponse(req, resp)

Spec == Init /\ [][Next]_vars

\* The event loop runs the continuation of a fetch that has settled: while
\* GET /progress requests are outstanding, the outcome of one of them is
\* processed eventually.
SpecLive ==
    /\ Init
    /\ [][Next]_vars
    /\ WF_vars(\E req \in pollReqs, resp \in PollResponses :
                  PollResponse(req, resp))

\* The table callbacks of either document, by the part of the page they
\* read and write.

\* paging and filtering of the product table
NextPaging ==
    \/ FilterClick
    \/ PrevClick
    \/ NextClick
    \/ \E f \in Filters : TypeFilter(f)
    \/ \E req \in BagToSet(listReqs), resp \in ListResponses :
         ListResponse(req, resp)

\* delete, bulk delete and test delivery
NextDelete ==
    \/ \E i \in DOMAIN tbody, ok \in BOOLEAN : DeleteProduct(i, ok)
    \/ \E req \in BagToSet(crudReqs), resp \in CrudResponses :
         DeleteResponse(req, resp)
    \/ \E ok \in BOOLEAN : BulkDeleteProducts(ok)
    \/ \E req \in BagToSet(crudReqs), resp \in CrudResponses :
         BulkResponse(req, resp)
    \/ \E resp \in WebhookListResponses : WebhookListResponse(resp)
    \/ \E i \in DOMAIN tbody, ok \in BOOLEAN : DeleteWebhook(i, ok)
    \/ \E req \in BagToSet(crudReqs), resp \in CrudResponses :
         WebhookDeleteResponse(req, resp)
    \/ \E i \in DOMAIN tbody : TestWebhook(i)
    \/ \E req \in BagToSet(crudReqs), resp \in CrudResponses :
         TestResponse(req, resp)

\* the tables: listing, paging, deleting, testing
SpecTable == (Init \/ InitWebhooks) /\ [][NextPaging \/ NextDelete]_vars

\* the create/edit modal and the save
NextModal ==
    \/ \E req \in BagToSet(listReqs), resp \in ListResponses :
         ListResponse(req, resp)
    \/ OpenCreateModal
    \/ CloseModal
    \/ \E i \in DOMAIN tbody : EditProduct(i)
    \/ \E v \in ProductInputs : InputProduct(v)
    \/ SaveProduct
    \/ \E req \in BagToSet(crudReqs), resp \in CrudResponses :
         SaveResponse(req, resp)
    \/ \E resp \in WebhookListResponses : WebhookListResponse(resp)
    \/ OpenModal
    \/ CloseWebhookModal
    \/ \E i \in DOMAIN tbody : EditWebhook(i)
    \/ \E v \in WebhookInputs : InputWebhook(v)
    \/ SaveWebhook
    \/ \E req \in BagToSet(crudReqs), resp \in CrudResponses :
         WebhookSaveResponse(req, resp)

SpecModal == (Init \/ InitWebhooks) /\ [][NextModal]_vars

\* the callbacks that issue a save, a delete or a bulk delete, with the
\* callbacks that bring a row to the table and a filled form to the modal
NextClicks ==
    \/ \E req \in BagToSet(listReqs), resp \in ListResponses :
         ListResponse(req, resp)
    \/ \E i \in DOMAIN tbody : EditProduct(i)
    \/ SaveProduct
    \/ \E req \in BagToSet(crudReqs), resp \in CrudResponses :
         SaveResponse(req, resp)
    \/ \E i \in DOMAIN tbody, ok \in BOOLEAN : DeleteProduct(i, ok)
    \/ \E req \in BagToSet(crudReqs), resp \in CrudResponses :
         DeleteResponse(req, resp)
    \/ \E ok \in BOOLEAN : BulkDeleteProducts(ok)
    \/ \E req \in BagToSet(crudReqs), resp \in CrudResponses :
         BulkResponse(req, resp)
    \/ \E resp \in WebhookListResponses : WebhookListResponse(resp)
    \/ \E i \in DOMAIN tbody : EditWebhook(i)
    \/ SaveWebhook
    \/ \E req \in BagToSet(crudReqs), resp \in CrudResponses :
         WebhookSaveResponse(req, resp)
    \/ \E i \in DOMAIN tbody, ok \in BOOLEAN : DeleteWebhook(i, ok)
    \/ \E req \in BagToSet(crudReqs), resp \in CrudResponses :
         WebhookDeleteResponse(req, resp)

SpecClicks == (Init \/ InitWebhooks) /\ [][NextClicks]_vars

\* ---------------------------------------------------------------- claims

ACsv == <<"a", ".", "c", "s", "v">>
BCsv == <<"b", ".", "c", "s", "v">>

\* Requests of loop l that are outstanding
Outstanding(l) == { r \in pollReqs : r.loop = l }

\* The step is the processing of one drop / file selection of a file
HandledFile == last'.op \in {"drop", "change"} /\ last'.file # Absent

\* C1: a file handed to handleFiles is uploaded (one POST /upload carrying
\* it) if and only if its name ends with '.csv'; otherwise no request of any
\* kind is issued, the status line shows the validation message and
\* currentFile keeps its value.
C1_UploadIffCsv ==
    [][HandledFile =>
         LET f == last'.file[1] IN
         IF EndsWith(f, DotCsv)
         THEN /\ uploadReqs' = uploadReqs (+) SetToBag({f})
              /\ currentFile' = Some(f)
         ELSE /\ uploadReqs' = uploadReqs
              /\ pollReqs' = pollReqs
              /\ listReqs' = listReqs
              /\ statusText' = <<"Please upload a valid CSV file.">>
              /\ currentFile' = currentFile]_vars

\* C1 witness: a rejected file was handled after a.csv had been accepted
C1_Witness ==
    /\ last.op = "drop"
    /\ last.file = Some(<<"c", "s", "v">>)
    /\ statusText = <<"Please upload a valid CSV file.">>
    /\ currentFile = Some(ACsv)
    /\ BagIn(ACsv, uploadReqs)

\* C2: once a SUCCESS response of a poll loop has been processed the loop
\* issues no further GET /progress request, and a loop to which exactly one
\* SUCCESS response was delivered has called loadProducts exactly once,
\* whatever the order of ticks and responses.
C2_SuccessStopsAndReloadsOnce ==
    /\ [](\A l \in DOMAIN intervals :
            /\ intervals[l].successes >= 1 => intervals[l].cleared
            /\ intervals[l].successes = 1 => intervals[l].reloads = 1)
    /\ [][\A l \in DOMAIN intervals :
            intervals[l].successes >= 1 =>
                /\ intervals'[l].issued = intervals[l].issued
                /\ Outstanding(l)' \subseteq Outstanding(l)]_vars

\* C2 witness: the second request of a loop was answered SUCCESS, and its
\* first request was answered, later, with a state that is not SUCCESS
C2_Witness ==
    /\ last.op = "pollResponse"
    /\ last.n = 1
    /\ last.resp.kind = "json"
    /\ last.resp.state = "PROGRESS"
    /\ intervals[last.loop].issued = 2
    /\ intervals[last.loop].successes = 1
    /\ intervals[last.loop].reloads = 1
    /\ Outstanding(last.loop) = {}

\* The callback that ran last processed a FAILURE body
FailureProcessed ==
    /\ last.op = "pollResponse"
    /\ last.resp.kind = "json"
    /\ last.resp.state = "FAILURE"

\* A cleared loop stays cleared and issues no request
ClearedLoopsStaySilent ==
    \A l \in DOMAIN intervals :
        intervals[l].cleared =>
            /\ intervals'[l].cleared
            /\ intervals'[l].issued = intervals[l].issued
            /\ Outstanding(l)' \subseteq Outstanding(l)

\* C3 (as amended): when a FAILURE response is processed the loop's timer
\* is cleared and the loop issues no request afterwards, the retry control
\* is visible, and the status line reads 'Failed: ' followed by the
\* response's status field, or by 'Error' when that field is absent or empty.
C3_FailureShown ==
    /\ [](FailureProcessed =>
            /\ intervals[last.loop].cleared
            /\ retryDisplay = "inline-block"
            /\ statusText =
                 <<"Failed: ",
                   IF last.resp.status \in {Absent, Some("")}
                   THEN "Error" ELSE last.resp.status[1]>>)
    /\ [][ClearedLoopsStaySilent]_vars

\* C3 witness: a FAILURE body with a status field was processed
C3_Witness ==
    /\ FailureProcessed
    /\ last.resp.status = Some("boom")
    /\ statusText = <<"Failed: ", "boom">>
    /\ intervals[last.loop].cleared

\* C3 as stated: the message shown equals the status field, or 'Error'
\* when the field is absent.
C3_Original ==
    FailureProcessed =>
        /\ intervals[last.loop].cleared
        /\ retryDisplay = "inline-block"
        /\ statusText = <<IF last.resp.status = Absent
                          THEN "Error" ELSE last.resp.status[1]>>

\* The callback that ran last processed a transport or parse failure of a
\* poll request
PollErrorProcessed ==
    /\ last.op = "pollResponse"
    /\ last.resp.kind \in {"network", "nonjson"}

\* C4: a transport or parse failure of a poll request stops polling after
\* exactly that tick: the loop issues no request after the failing tick's
\* request, so the failing request is the loop's latest when its failure is
\* processed.
C4_Original ==
    PollErrorProcessed => intervals[last.loop].issued = last.n

\* C5: the outcome of a POST /upload either carries a task id, and then
\* exactly one poll loop is started for that id and the upload step shows no
\* failure; or it is a network error, a body that is not JSON or a body
\* without task id, and then no loop is started, the status reads 'Upload
\* failed. Please try again.' and the retry control is visible.  A click on
\* the retry control then issues a POST /upload carrying currentFile, the
\* file accepted last.
C5_UploadOutcome ==
    /\ [][last'.op = "uploadResponse" =>
            LET r == last'.resp IN
            IF r.kind = "json" /\ r.task_id \notin {Absent, Some("")}
            THEN /\ Len(intervals') = Len(intervals) + 1
                 /\ SubSeq(intervals', 1, Len(intervals)) = intervals
                 /\ intervals'[Len(intervals')].taskId = r.task_id[1]
                 /\ ~intervals'[Len(intervals')].cleared
                 /\ statusText' = statusText
                 /\ retryDisplay' = retryDisplay
            ELSE /\ intervals' = intervals
                 /\ statusText' = <<"Upload failed. Please try again.">>
                 /\ retryDisplay' = "inline-block"]_vars
    /\ [](last.op = "uploadResponse" => currentFile # Absent)
    /\ [][(last'.op = "retry" /\ currentFile # Absent) =>
            /\ uploadReqs' = uploadReqs (+) SetToBag({currentFile[1]})
            /\ currentFile' = currentFile]_vars

\* C5 witness: the upload of a.csv failed after b.csv had been accepted, and
\* the retry click uploaded b.csv
C5_Witness ==
    /\ last.op = "retry"
    /\ statusText = <<"Upload failed. Please try again.">>
    /\ retryDisplay = "inline-block"
    /\ currentFile = Some(BCsv)
    /\ CopiesIn(BCsv, uploadReqs) = 2
    /\ ~BagIn(ACsv, uploadReqs)

\* Requests that delete: DELETE /api/products/{id}, DELETE /api/webhooks/{id}
\* and POST /api/products/bulk_delete
Destructive(r) == r.kind \in {"delete", "bulk"}

\* C6: a destructive request is issued only by the click whose confirmation
\* prompt the user accepted, and it is the request of that click; a click
\* whose prompt is declined issues no request and changes no control and no
\* client state.
C6_ConfirmBeforeDestroy ==
    /\ [][\A r \in BagToSet(crudReqs') :
            (Destructive(r) /\ CopiesIn(r, crudReqs') > CopiesIn(r, crudReqs))
              => /\ last'.op \in {"delete", "bulk"}
                 /\ last'.ok
                 /\ last'.req = r
                 /\ CopiesIn(r, crudReqs') = CopiesIn(r, crudReqs) + 1]_vars
    /\ [][(last'.op \in {"delete", "bulk"} /\ ~last'.ok)
            => UNCHANGED varsButLast]_vars

\* C6 witness: a bulk delete was declined while a confirmed delete of a
\* product was outstanding
C6_Witness ==
    /\ last.op = "bulk"
    /\ ~last.ok
    /\ ~bulkBtn.disabled
    /\ BagToSet(crudReqs) = {CrudReq("delete", "DELETE", Some(1), Absent)}

\* the button a test request was started from
BtnOf(r) == testBtns[r.body[1].gen][r.body[1].row]

\* C7: while a bulk-delete request is outstanding the bulk-delete button is
\* disabled and reads 'Deleting...', and while a test request is outstanding
\* the Test button it was started from is disabled and reads 'Testing...';
\* when the outcome is processed, whether success, reported failure or
\* exception, the button is enabled again with its label 'Delete All
\* Products' / 'Test'; a successful bulk delete raises an alert with the
\* deleted count and reloads the product list.
C7_ButtonRestored ==
    /\ [](\A r \in BagToSet(crudReqs) :
            /\ r.kind = "bulk" =>
                 bulkBtn = [disabled |-> TRUE, text |-> "Deleting..."]
            /\ r.kind = "test" =>
                 BtnOf(r) = [disabled |-> TRUE, text |-> "Testing..."])
    /\ [](last.op = "bulkResponse" =>
            bulkBtn = [disabled |-> FALSE, text |-> "Delete All Products"])
    /\ [](last.op = "testResponse" =>
            BtnOf(last.req) = [disabled |-> FALSE, text |-> "Test"])
    /\ [][(/\ last'.op = "bulkResponse"
           /\ last'.resp.kind = "json"
           /\ last'.resp.status = "success")
            => /\ last'.alert = <<"All products deleted (", "7", ")">>
               /\ listReqs' = listReqs (+) SetToBag({ListQuery})]_vars

\* C7 witness: the bulk delete ended in a transport exception and the
\* button is back
C7_Witness ==
    /\ last.op = "bulkResponse"
    /\ last.resp.kind = "network"
    /\ last.alert = <<"Error: ", "network">>
    /\ bulkBtn = [disabled |-> FALSE, text |-> "Delete All Products"]

\* C8: saveProduct with an empty sku or an empty name issues no request,
\* raises the alert 'SKU and Name are required.' and leaves the modal open
\* with its form as it was; with both filled in it issues exactly one
\* POST /api/products carrying the form.
C8_SaveValidation ==
    [][(last'.op = "save" /\ doc = "products") =>
         IF form.sku = "" \/ form.name = ""
         THEN /\ crudReqs' = crudReqs
              /\ listReqs' = listReqs
              /\ last'.alert = <<"SKU and Name are required.">>
              /\ modalDisplay = "block"
              /\ modalDisplay' = "block"
              /\ form' = form
         ELSE /\ crudReqs' = crudReqs (+)
                    SetToBag({CrudReq("save", "POST", Absent, Some(form))})
              /\ listReqs' = listReqs
              /\ last'.alert = Absent]_vars

\* C8 witness: a form with a sku and no name was submitted
C8_Witness ==
    /\ last.op = "save"
    /\ doc = "products"
    /\ last.alert = <<"SKU and Name are required.">>
    /\ form.sku = "A"
    /\ form.name = ""
    /\ modalDisplay = "block"
    /\ crudReqs = EmptyBag

IsOpen == modalDisplay \in {"block", "flex"}

SaveSucceeded(e) ==
    e.op = "saveResponse" /\ e.resp.kind = "json" /\ e.resp.status = "success"

\* C9: the modal opens only by the create or the edit control, create with
\* an empty identifier and edit with the entity's; an open modal closes only
\* when a save response with status 'success' is processed or by the close
\* control; a failed save response (reported error or transport exception)
\* leaves the modal and its form as they were and raises an alert; the close
\* control closes the modal and leaves the form content alone.
C9_ModalStateMachine ==
    [][/\ (~IsOpen /\ IsOpen') => last'.op \in {"create", "edit"}
       /\ last'.op = "create" => (IsOpen' /\ form'.id = Absent)
       /\ last'.op = "edit" => (IsOpen' /\ form'.id # Absent)
       /\ (IsOpen /\ ~IsOpen') => (last'.op = "close" \/ SaveSucceeded(last'))
       /\ (last'.op = "saveResponse" /\ ~SaveSucceeded(last'))
            => /\ modalDisplay' = modalDisplay
               /\ modalTitle' = modalTitle
               /\ form' = form
               /\ last'.alert # Absent
       /\ SaveSucceeded(last') => ~IsOpen'
       /\ last'.op = "close" => (~IsOpen' /\ form' = form)]_vars

\* C9 witness: the save of an edited product was refused by the server; the
\* modal is still open on the edited form
C9_Witness ==
    /\ last.op = "saveResponse"
    /\ doc = "products"
    /\ last.resp.status = "error"
    /\ last.alert = <<"Error: ", "denied">>
    /\ modalDisplay = "block"
    /\ modalTitle = "Edit Product"
    /\ form.id = Some(2)
    /\ last.req.body = Some(form)

\* C10: currentPage is always an integer >= 1; a filter click sets it to 1
\* and issues a list request for page 1 with the filter typed in; a
\* previous-page click at page 1 changes nothing and issues no request.
C10_PageAtLeastOne ==
    /\ [](currentPage \in Nat /\ currentPage >= 1)
    /\ [][last'.op = "filter" =>
            /\ currentPage' = 1
            /\ listReqs' = listReqs (+)
                 SetToBag({[page |-> 1, search |-> filter.search,
                            active |-> filter.active]})]_vars
    /\ [][(last'.op = "prev" /\ currentPage = 1)
            => UNCHANGED varsButLast]_vars

\* C10 witness: next page, filter, then previous page at page 1
C10_Witness ==
    /\ last.op = "prev"
    /\ currentPage = 1
    /\ nRequests = 2
    /\ CopiesIn([page |-> 2, search |-> "", active |-> ""], listReqs) = 1
    /\ CopiesIn([page |-> 1, search |-> "", active |-> ""], listReqs) = 2

\* the least integer y with y * 20 >= total, for total >= 0
CeilOf20(total) == CHOOSE y \in 0..total : 20 * y >= total /\ 20 * (y - 1) < total

\* the list response processed by the callback that ran last
ListBodyProcessed(e) ==
    e.op = "listResponse" /\ e.req # NoReq /\ e.resp.kind = "json"

\* C11: when a list response with total >= 0 is processed the page label
\* reads 'Page X of Y' with X the page of the response and Y the larger of 1
\* and ceil(total / 20); total 45 gives 'of 3' and total 0 gives 'of 1'.
C11_PageLabel ==
    [][ListBodyProcessed(last') =>
         LET t == last'.resp.total
             y == IF CeilOf20(t) < 1 THEN 1 ELSE CeilOf20(t)
         IN /\ t >= 0
            /\ pageInfo' = Some([page |-> last'.req.page, of |-> y])
            /\ t = 45 => pageInfo'[1].of = 3
            /\ t = 0 => pageInfo'[1].of = 1]_vars

\* C11 witness: the list of page 2 came with total 21: 'Page 2 of 2'
C11_Witness ==
    /\ ListBodyProcessed(last)
    /\ last.resp.total = 21
    /\ last.req.page = 2
    /\ pageInfo = Some([page |-> 2, of |-> 2])

\* C12: polling is single-flight: a poll loop has at most one GET
\* /progress/{taskId} request outstanding at any time.
C12_SingleFlight ==
    \A l \in DOMAIN intervals : Cardinality(Outstanding(l)) <= 1

\* C13: at most one poll loop (interval timer that was not cleared) is
\* active in every reachable state.
C13_OneActiveLoop ==
    Cardinality({ l \in DOMAIN intervals : ~intervals[l].cleared }) <= 1

\* an outcome that ends a loop: a transport or parse error, or a body with
\* state SUCCESS or FAILURE
TerminalOutcome(r) ==
    r.kind # "json" \/ r.state \in {"SUCCESS", "FAILURE"}

\* the callback that ran last processed a terminal outcome of loop l
TerminalProcessed(l) ==
    last.op = "pollResponse" /\ last.loop = l /\ TerminalOutcome(last.resp)

Cleared(l) == l \in DOMAIN intervals /\ intervals[l].cleared

\* C14: the timer of a loop is cleared exactly when a terminal outcome of a
\* request of that loop is processed, and by no other callback (no upload, no
\* retry click, no other loop); a loop that is not cleared issues exactly one
\* request on each of its ticks, and a tick stays possible as long as the loop
\* is not cleared; the outcomes of a loop's requests are processed
\* eventually, and once a terminal outcome of a loop was processed the loop
\* is stopped for good.
C14_ClearedExactlyOnOwnEnd ==
    /\ [][\A l \in DOMAIN intervals :
            (~intervals[l].cleared /\ intervals'[l].cleared)
              <=> (~intervals[l].cleared /\ TerminalProcessed(l)')]_vars
    /\ [][\A l \in DOMAIN intervals :
            (last'.op = "tick" /\ last'.loop = l) =>
                /\ ~intervals[l].cleared
                /\ intervals'[l].issued = intervals[l].issued + 1
                /\ Outstanding(l)' =
                     Outstanding(l) \cup
                       {[loop |-> l, n |-> intervals'[l].issued]}
                /\ Cardinality(pollReqs') = Cardinality(pollReqs) + 1]_vars
    /\ [](\A l \in DOMAIN intervals :
            (~intervals[l].cleared /\ nRequests < MaxRequests)
              => ENABLED Tick(l))
    /\ \A l \in 1..MaxRequests :
          (Outstanding(l) # {}) ~> (Outstanding(l) = {})
    /\ \A l \in 1..MaxRequests : TerminalProcessed(l) ~> []Cleared(l)

\* C14 witness: a second upload started loop 2 and loop 2 ended with a
\* FAILURE; loop 1 is still running
C14_Witness ==
    /\ Len(intervals) = 2
    /\ TerminalProcessed(2)
    /\ last.resp.kind = "json"
    /\ intervals[2].cleared
    /\ ~intervals[1].cleared

\* C15: once a terminal outcome of a job's loop has been processed, no
\* outcome of that loop processed later changes the progress bar, the
\* progress text, the status text or the retry control, and none triggers
\* another reload of the product list.
C15_NoLateUpdate ==
    [][\A l \in DOMAIN intervals :
         (intervals[l].cleared /\ last'.op = "pollResponse" /\ last'.loop = l)
           => UNCHANGED <<progressWidth, progressText, statusText,
                          retryDisplay, listReqs>>]_vars

\* the number of requests of kind k in the bag of outstanding requests
OutstandingIn(reqs, k) ==
    LET S == { r \in BagToSet(reqs) : r.kind = k }
        sum[T \in SUBSET S] ==
            IF T = {} THEN 0
            ELSE LET r == CHOOSE x \in T : TRUE
                 IN CopiesIn(r, reqs) + sum[T \ {r}]
    IN sum[S]

OutstandingOf(k) == OutstandingIn(crudReqs, k)

\* a click that issues a request of the kind is possible now
Issues == nRequests' = nRequests + 1
CanSaveProduct == ENABLED (SaveProduct /\ Issues)
CanDeleteProduct ==
    ENABLED (\E i \in DOMAIN tbody : DeleteProduct(i, TRUE) /\ Issues)
CanDeleteWebhook ==
    ENABLED (\E i \in DOMAIN tbody : DeleteWebhook(i, TRUE) /\ Issues)
CanBulkDelete == ENABLED (BulkDeleteProducts(TRUE) /\ Issues)
CanSaveWebhook == ENABLED (SaveWebhook /\ Issues)

\* the page offers the click: the document, a row to delete or the open
\* modal to submit, and the budget of the run
OffersSave(d, shown) ==
    doc = d /\ modalDisplay = shown /\ nRequests < MaxClicks
OffersDelete(d) == doc = d /\ tbody # <<>> /\ nRequests < MaxClicks

\* C16 (as amended): product save, product delete and webhook delete have no
\* request-in-flight guard: the click that issues the request stays possible
\* while requests of its kind are outstanding, and then adds one more.  The
\* bulk delete and the webhook save disable their control while their
\* request is outstanding: no second click is possible and at most one such
\* request is outstanding.
C16_GuardsOnlyOnBulkAndWebhookSave ==
    /\ []((OffersSave("products", "block") /\ form.sku # "" /\ form.name # "")
            => CanSaveProduct)
    /\ [](OffersDelete("products") => CanDeleteProduct)
    /\ [](OffersDelete("webhooks") => CanDeleteWebhook)
    /\ [][(last'.op \in {"save", "delete"} /\ last'.req # NoReq)
            => /\ CopiesIn(last'.req, crudReqs') =
                    CopiesIn(last'.req, crudReqs) + 1
               /\ OutstandingIn(crudReqs', last'.req.kind) =
                    OutstandingIn(crudReqs, last'.req.kind) + 1]_vars
    /\ [](doc = "products" => OutstandingOf("bulk") <= 1)
    /\ [](doc = "webhooks" => OutstandingOf("save") <= 1)
    /\ [](OutstandingOf("bulk") = 1 => ~CanBulkDelete)
    /\ []((doc = "webhooks" /\ OutstandingOf("save") = 1) => ~CanSaveWebhook)

\* C16 witness: a second save of the product form was submitted while the
\* first was unanswered
C16_Witness ==
    /\ doc = "products"
    /\ last.op = "save"
    /\ last.req # NoReq
    /\ CopiesIn(last.req, crudReqs) = 2

\* C16 as stated: no path has a guard, the bulk delete and the webhook save
\* included: their click stays possible while their request is outstanding.
C16_Original ==
    /\ (doc = "products" /\ nRequests < MaxClicks) => CanBulkDelete
    /\ OffersSave("webhooks", "flex") => CanSaveWebhook

\* C17: the product table shows the latest snapshot: when a list response
\* has been rendered and no list request is outstanding, the rendered
\* response is the one to the request issued last, so the page label shows
\* the current page number currentPage.
C17_LatestSnapshot ==
    (doc = "products" /\ listReqs = EmptyBag /\ ListBodyProcessed(last))
      => /\ last.req.page = currentPage
         /\ pageInfo # Absent
         /\ pageInfo[1].page = currentPage

\* a transport error on an upload or a poll: the network is unreachable, the
\* body is not JSON, or the HTTP status is not 2xx
TransportError(r) == r.kind \in {"network", "nonjson"} \/ ~r.ok

\* the callbacks that process the outcome of a list, save, delete, bulk
\* delete or test request
TableOutcomes ==
    {"listResponse", "saveResponse", "deleteResponse", "bulkResponse",
     "testResponse"}

\* C18: every transport error on a request of the client is caught where
\* the request was made and shown to the user, in the status line (upload,
\* progress poll) or in an alert (lists, saves, deletes, bulk delete, test),
\* and the request is not repeated: the callback issues no request, and a
\* failed poll stops its loop.
C18_ErrorsSurfaced ==
    [][/\ (last'.op = "uploadResponse" /\ TransportError(last'.resp))
            => /\ statusText' = <<"Upload failed. Please try again.">>
               /\ retryDisplay' = "inline-block"
               /\ intervals' = intervals
               /\ nRequests' = nRequests
       /\ (last'.op = "pollResponse" /\ TransportError(last'.resp))
            => /\ statusText' = <<"Error fetching progress.">>
               /\ retryDisplay' = "inline-block"
               /\ intervals'[last'.loop].cleared
               /\ nRequests' = nRequests
       /\ (/\ last'.op \in TableOutcomes
           /\ last'.resp.kind \in {"network", "nonjson"})
            => /\ last'.alert # Absent
               /\ listReqs' \sqsubseteq listReqs
               /\ crudReqs' \sqsubseteq crudReqs]_vars

CreateTitles == {"Create Product", "Create Webhook"}
EditTitles == {"Edit Product", "Edit Webhook"}

\* C19: the identifier field of the modal decides create versus update.
\* The create control opens the modal with an empty identifier, whatever was
\* edited before; the edit control opens it with the identifier of the row
\* edited; nothing else changes the identifier or the title.  A save
\* submitted from the modal carries the identifier of the form: a product
\* save is POST /api/products with that id in the body (empty from create);
\* a webhook save is POST /api/webhooks from create and
\* PUT /api/webhooks/{id} from edit.
C19_IdentifierDecides ==
    /\ [][/\ last'.op = "create"
             => (form'.id = Absent /\ modalTitle' \in CreateTitles)
          /\ last'.op = "edit"
             => /\ \E i \in DOMAIN tbody : form'.id = Some(tbody[i].id)
                /\ modalTitle' \in EditTitles
          /\ last'.op \notin {"create", "edit"}
             => (form'.id = form.id /\ modalTitle' = modalTitle)
          /\ (last'.op = "save" /\ last'.req # NoReq)
             => /\ crudReqs' = crudReqs (+) SetToBag({last'.req})
                /\ IF doc = "products"
                   THEN /\ last'.req.method = "POST"
                        /\ last'.req.id = Absent
                        /\ last'.req.body[1].id = form.id
                   ELSE IF modalTitle \in CreateTitles
                   THEN /\ last'.req.method = "POST"
                        /\ last'.req.id = Absent
                   ELSE /\ last'.req.method = "PUT"
                        /\ last'.req.id = form.id]_vars
    /\ [](modalTitle \in CreateTitles => form.id = Absent)
    /\ [](modalTitle \in EditTitles => form.id # Absent)

\* C19 witness: the save from the edit modal of product 1 is unanswered,
\* and a save from the create modal, opened afterwards, was submitted with
\* an empty identifier
C19_Witness ==
    /\ doc = "products"
    /\ last.op = "save"
    /\ last.req # NoReq
    /\ last.req.body[1].id = Absent
    /\ modalTitle = "Create Product"
    /\ \E r \in BagToSet(crudReqs) : r.body[1].id = Some(1)

\* C20: currentFile is null or a file whose name ends with '.csv'; every
\* POST /upload outstanding carries such a file, and a step adds to them at
\* most one request, for such a file; a retry click while currentFile is
\* null issues no request and changes nothing; a rejected file leaves
\* currentFile and the retry control as they were, and a retry click
\* uploads currentFile.
C20_CurrentFileIsCsv ==
    /\ [](currentFile = Absent \/ EndsWith(currentFile[1], DotCsv))
    /\ [](\A f \in BagToSet(uploadReqs) : EndsWith(f, DotCsv))
    /\ [][uploadReqs' # uploadReqs =>
            \/ \E f \in BagToSet(uploadReqs) :
                  uploadReqs' = uploadReqs (-) SetToBag({f})
            \/ \E f \in BagToSet(uploadReqs') :
                  /\ uploadReqs' = uploadReqs (+) SetToBag({f})
                  /\ EndsWith(f, DotCsv)
                  /\ currentFile' = Some(f)
                  /\ last'.op \in {"drop", "change", "retry"}]_vars
    /\ [][(last'.op = "retry" /\ currentFile = Absent)
            => UNCHANGED varsButLast]_vars
    /\ [][(HandledFile /\ ~EndsWith(last'.file[1], DotCsv))
            => UNCHANGED <<currentFile, retryDisplay, uploadReqs>>]_vars
    /\ [][(last'.op = "retry" /\ currentFile # Absent)
            => /\ CopiesIn(currentFile[1], uploadReqs') =
                    CopiesIn(currentFile[1], uploadReqs) + 1
               /\ UNCHANGED <<currentFile, retryDisplay>>]_vars

\* C20 witness: the upload of a.csv failed, the file 'csv' was then
\* rejected, and the retry click uploaded a.csv again
C20_Witness ==
    /\ last.op = "retry"
    /\ currentFile = Some(ACsv)
    /\ retryDisplay = "inline-block"
    /\ statusText = <<"Please upload a valid CSV file.">>
    /\ uploadReqs = SetToBag({ACsv})

====
